---- MODULE Spec2Model ----
(***************************************************************************)
(* The UE side of the UE/gNB control-plane engine: the UE context          *)
(* (ue/context/context.go) and the 5GMM NAS handlers that drive it.        *)
(*                                                                         *)
(* One UE task runs the handlers.  A handler is atomic up to each point    *)
(* where the Go code can suspend: the send on scenarioChan inside the      *)
(* SetStateMM_* setters and the send on gnbRx inside the sender.  pc is    *)
(* the position of the UE task between those points.                       *)
(*                                                                         *)
(* Spec is the 5GMM level: the NAS handlers, the sender and Terminate.     *)
(* SpecSession is the session level: the 16 PDU-session slots, the DL NAS  *)
(* Transport handler and Terminate.  SpecQueue is the uplink queue gnbRx   *)
(* with the UE lock: the UE task and a trigger task send, Terminate        *)
(* closes, the gNB task drains.                                            *)
(***************************************************************************)
EXTENDS Integers, Sequences, FiniteSets, TLC

\* ------------------------------------------------------------------ bounds

\* number of downlink NAS messages / driver calls one behaviour handles
MaxOps == 3
\* capacity of the scenario channel the driver hands to NewRanUeContext
ScenarioCap == 1

\* --------------------------------------------------------------- constants

MM5G_NULL == 0
MM5G_DEREGISTERED == 1
MM5G_REGISTERED_INITIATED == 2
MM5G_REGISTERED == 3
MM5G_SERVICE_REQ_INIT == 4
MM5G_DEREGISTERED_INIT == 5

\* 5GSM main states in the UE
SM5G_PDU_SESSION_INACTIVE == 6
SM5G_PDU_SESSION_ACTIVE_PENDING == 7
SM5G_PDU_SESSION_ACTIVE == 8

\* PduSession [16]*UEPDUSession
NumSlots == 16

\* make(chan context.UEMessage, 1)
GnbRxCap == 1

\* lengths of the buffers DeriveRESstarAndSetKey allocates
MacLen == 8
AkLen == 6
SqnLen == 6

\* ------------------------------------------------------------ byte helpers

RECURSIVE XorN(_, _, _)
XorN(a, b, n) ==
    IF n = 0 THEN 0
    ELSE IF a = 0 THEN b % (2 ^ n)
    ELSE IF b = 0 THEN a % (2 ^ n)
    ELSE (((a % 2) + (b % 2)) % 2) + (2 * XorN(a \div 2, b \div 2, n - 1))

\* Go's ^ on two uint8
XorByte(a, b) == XorN(a, b, 8)

\* hex.DecodeString over a string of hex digits (each digit a value 0..15)
HexDecode(h) == [i \in 1..(Len(h) \div 2) |-> (h[(2 * i) - 1] * 16) + h[2 * i]]

\* fmt.Sprintf("%x", b) for a byte slice b: two digits per byte
HexEncode(b) ==
    [i \in 1..(2 * Len(b)) |->
        IF i % 2 = 1 THEN b[(i + 1) \div 2] \div 16 ELSE b[i \div 2] % 16]

\* fmt.Sprintf("%x", v) for one uint8 v: no leading zero
FmtX(v) == IF v < 16 THEN <<v>> ELSE <<v \div 16, v % 16>>

\* bytes.Compare: -1, 0 or 1, lexicographic
RECURSIVE BytesCompare(_, _)
BytesCompare(a, b) ==
    IF Len(a) = 0 /\ Len(b) = 0 THEN 0
    ELSE IF Len(a) = 0 THEN -1
    ELSE IF Len(b) = 0 THEN 1
    ELSE IF Head(a) < Head(b) THEN -1
    ELSE IF Head(a) > Head(b) THEN 1
    ELSE BytesCompare(Tail(a), Tail(b))

\* ------------------------------------------------- Milenage and KDF (lib/)
\* The primitives are external; they are deterministic functions of their
\* inputs with the output lengths the caller allocates.  K and OPc are fixed
\* for the one UE and do not appear as arguments.

F2345_AK(rand) == [i \in 1..AkLen |-> ((rand * 17) + i) % 256]
F2345_AKstar(rand) == [i \in 1..AkLen |-> ((rand * 29) + (2 * i)) % 256]
F2345_RES(rand) == [i \in 1..8 |-> ((rand * 31) + i) % 256]

F1_mac_a(rand, sqn, amf) ==
    [i \in 1..MacLen |->
        ((rand * 11) + (sqn[5] * 5) + (sqn[6] * 3) + amf[1] + amf[2] + (i * 7)) % 256]
F1_mac_s(rand, sqn, amf) ==
    [i \in 1..MacLen |->
        ((rand * 13) + (sqn[5] * 3) + (sqn[6] * 5) + amf[1] + amf[2] + (i * 5) + 100) % 256]

\* UeauCommon.GetKDFValue for RES*: 32 bytes
KdfResStar(rand, res) == [i \in 1..32 |-> ((rand * 7) + res[1] + (i * 3)) % 256]

\* ------------------------------------------------------------------- state

VARIABLES
    StateMM,             \* UEContext.StateMM
    AuthenticationSubs,  \* UeSecurity.AuthenticationSubs (hex strings)
    IntegrityAlg,        \* UeSecurity.IntegrityAlg
    CipheringAlg,        \* UeSecurity.CipheringAlg
    Kamf,                \* UeSecurity.Kamf
    KnasEnc,             \* UeSecurity.KnasEnc
    KnasInt,             \* UeSecurity.KnasInt
    Guti,                \* UeSecurity.Guti
    amfInfo,             \* UEContext.amfInfo
    Snssai,              \* UEContext.Snssai
    gnbRx,               \* UEContext.gnbRx: the UE's reference and the queue
    scenarioChan,        \* UEContext.scenarioChan
    pc,                  \* position of the UE task
    pending,             \* NAS messages the running handler still hands to the sender
    emitted,             \* messages the running handler has put on gnbRx
    dropped,             \* messages the running handler's sender dropped
    last,                \* the handler that ran last, its input and its AKA result
    pre,                 \* the UE context as that handler found it
    setLog,              \* every SetStateMM_* call: the state set, whether it changed
    pubLog,              \* every StateChange sent on scenarioChan, in order
    opCount,             \* handlers and driver calls started so far
    PduSession,          \* UEContext.PduSession: slot index 0..15 -> session or nil
    StateSM,             \* the SM state the UE-level setter of the handlers keeps
    osLinks,             \* ids of the sessions whose TUN/route/VRF exist in the OS
    lock,                \* UEContext.lock: "free" or the task holding it
    tpc,                 \* position of the driver's trigger task
    tres,                \* outcome of the trigger task's last send
    sendSeq,             \* messages put on gnbRx so far
    recvSeq,             \* messages the gNB task has taken from gnbRx so far
    lastRecv,            \* serial number of the message it took last
    routingIndicator,    \* the routingIndicator argument of NewRanUeContext
    RoutingIndicator,    \* UeSecurity.RoutingIndicator (characters)
    encodedRoutingIndicator, \* the bytes GetRoutingIndicatorInOctets returned
    riState,             \* "config", "encoded" or "fatal" (log.Fatal ended the process)
    ngapIn,              \* gNB: the NGAP message Dispatch was called with last
    ngapMsg,             \* gNB: what ngap.Decoder returned for it
    invoked,             \* gNB: the handlers that Dispatch call invoked, in order
    dispatched,          \* gNB: Dispatch calls so far
    smContexts,          \* AMF UEContext.smContexts: session id -> SmContext or none
    SmContextMtx,        \* AMF UEContext.SmContextMtx: "free" or the task holding it
    amfTask,             \* AMF: per task, the call it is in and its locals
    smCalls,             \* AMF: AddSmContext / DeleteSmContext calls so far
    smLive               \* AMF: per id, AddSmContext calls that returned nil less
                         \* DeleteSmContext calls that returned nil

secVars == <<AuthenticationSubs, IntegrityAlg, CipheringAlg, Kamf, KnasEnc, KnasInt>>
regVars == <<Guti, amfInfo, Snssai>>
histVars == <<last, pre, opCount>>
sessVars == <<PduSession, StateSM, osLinks>>
trigVars == <<tpc, tres>>
seqVars == <<sendSeq, recvSeq, lastRecv>>
otherVars == <<sessVars, lock, trigVars, seqVars>>
riVars == <<routingIndicator, RoutingIndicator, encodedRoutingIndicator, riState>>
ngapVars == <<ngapIn, ngapMsg, invoked, dispatched>>
amfVars == <<smContexts, SmContextMtx, amfTask, smCalls, smLive>>
sideVars == <<riVars, ngapVars, amfVars>>
ueVars == <<StateMM, secVars, regVars, gnbRx, scenarioChan, pc, pending, emitted,
            dropped, histVars, setLog, pubLog, sessVars, lock, trigVars, seqVars>>
vars == <<ueVars, sideVars>>

\* ------------------------------------------------------------------ inputs

\* sequence numbers a subscription or a home network can hold (6 bytes)
SqnValues == { <<0, 0, 0, 0, 0, 1>>, <<0, 0, 0, 0, 0, 2>>, <<0, 0, 0, 0, 1, 0>> }
\* the AMF field of the subscription, "8000"
AmfField == <<8, 0, 0, 0>>
\* RAND values of the challenges
Rands == {1}
\* configured slices: sst = 0 asks for the network's allowed NSSAI
SstConfigs == {0, 1}
SdConfig == <<0, 1, 0, 2, 0, 3>>

FlipLast(m) == [m EXCEPT ![Len(m)] = XorByte(m[Len(m)], 1)]

\* AUTN as a home network builds it for sqn: SQN xor AK || AMF || MAC_a,
\* with the MAC intact or with its last byte flipped
MkAutn(rand, sqn, intact) ==
    LET mac == F1_mac_a(rand, sqn, HexDecode(AmfField))
    IN  [i \in 1..AkLen |-> XorByte(sqn[i], F2345_AK(rand)[i])]
        \o HexDecode(AmfField)
        \o (IF intact THEN mac ELSE FlipLast(mac))

\* the Authentication Requests the AMF sends: RAND and AUTN
AuthenticationRequests ==
    { [rand |-> r, autn |-> MkAutn(r, s, b)] :
        r \in Rands, s \in SqnValues, b \in BOOLEAN }

\* Registration Accept messages: AMF ids, 5G-TMSI, Allowed NSSAI value
\* (length, SST, SD[3])
RegistrationAccepts ==
    { [AMFRegionID |-> 202, AMFSetID |-> 1016, AMFPointer |-> 0,
       TMSI5G |-> <<1, 2, 3, 4>>, AllowedNSSAI |-> n] :
         n \in { <<4, 1, 1, 2, 3>>, <<4, 2, 17, 34, 51>> } }

\* Security Mode Commands: selected algorithms and the RINMR bit
SecurityModeCommands ==
    { [Ciphering |-> 0, Integrity |-> 2, RINMR |-> 1],
      [Ciphering |-> 2, Integrity |-> 1, RINMR |-> 0] }

\* PDU session ids named by calls and messages: 0, the first, the last, one beyond
SessionIds == {0, 1, 16, 17}
\* PDU Address Information values ([12]uint8)
PduAddresses == { <<10, 45, 0, 2, 0, 0, 0, 0, 0, 0, 0, 0>>,
                  <<192, 168, 100, 7, 0, 0, 0, 0, 0, 0, 0, 0>> }
\* DL NAS Transport payloads: PDU Session Establishment Accepts and one other
\* 5GSM message
DlNasTransports ==
    { [type |-> "PDUSessionEstablishmentAccept", PDUSessionID |-> id,
       PDUAddressInformation |-> a] : id \in SessionIds, a \in PduAddresses }
    \cup { [type |-> "PDUSessionReleaseCommand", PDUSessionID |-> 1,
            PDUAddressInformation |-> <<0, 0, 0, 0, 0, 0, 0, 0, 0, 0, 0, 0>>] }
NoPdu == [type |-> "", PDUSessionID |-> 0,
          PDUAddressInformation |-> <<0, 0, 0, 0, 0, 0, 0, 0, 0, 0, 0, 0>>]
\* numbers of CreatePDUSession calls made before a session-level behaviour starts
PreCreated == {0, 15}

\* -------------------------------------------------------------- NAS uplink

AuthenticationFailure(cause, param) ==
    [type |-> "AuthenticationFailure", cause |-> cause, param |-> param]
AuthenticationResponse(param) ==
    [type |-> "AuthenticationResponse", cause |-> "", param |-> param]
RegistrationComplete ==
    [type |-> "RegistrationComplete", cause |-> "", param |-> <<>>]
SecurityModeComplete(rinmr) ==
    [type |-> "SecurityModeComplete", cause |-> "", param |-> <<rinmr>>]
\* the UL NAS Transport a driver trigger builds
UlNasTransport ==
    [type |-> "UlNasTransport", cause |-> "", param |-> <<>>]

\* --------------------------------------------------------------------- AKA

NoKamf == [derived |-> FALSE, rand |-> 0, sqnXorAk |-> <<>>]
NoKnas == [derived |-> FALSE, kind |-> 0, alg |-> 0, kamf |-> NoKamf]

deriveAUTN(autn, ak) ==
    [sqn   |-> [i \in 1..SqnLen |-> XorByte(autn[i], ak[i])],
     amf   |-> SubSeq(autn, 7, 8),
     mac_a |-> SubSeq(autn, 9, Len(autn))]

\* lines 616-619: a MAC mismatch is logged ("Ignoring MAC failure") and the
\* return of "MAC failure" is commented out
MacFailureReturned(mac_a, mac_aHn) == FALSE

SqnStaleReversed(sqnUe, sqnHn) == BytesCompare(sqnHn, sqnUe) > 0
\* bytes.Compare(sqnUe, sqnHn) > 0
SqnStale(sqnUe, sqnHn) == BytesCompare(sqnUe, sqnHn) > 0

\* Kausf -> Kseaf -> Kamf from CK||IK (of rand), SNN, SQN xor AK and SUPI
DerivateKamf(rand, SQN, AK) ==
    [derived |-> TRUE, rand |-> rand,
     sqnXorAk |-> [i \in 1..AkLen |-> IF i <= Len(SQN) THEN XorByte(SQN[i], AK[i]) ELSE 0]]

\* auth.AlgorithmKeyDerivation: kind 1 = NAS-enc, kind 2 = NAS-int
DerivateAlgKey(kamf, kind, alg) ==
    [derived |-> TRUE, kind |-> kind, alg |-> alg, kamf |-> kamf]

\* The value returned, the callee's own copy of authSubs when it returns, and
\* the keys of the UE context after the call.
DeriveRESstarAndSetKey(authSubs, RAND, AUTN, ue) ==
    LET sqnUe   == HexDecode(authSubs.SequenceNumber)
        AMF     == HexDecode(authSubs.AuthenticationManagementField)
        RES     == F2345_RES(RAND)
        AK      == F2345_AK(RAND)
        AKstar  == F2345_AKstar(RAND)
        parsed  == deriveAUTN(AUTN, AK)
        sqnHn   == parsed.sqn
        mac_aHn == parsed.mac_a
        mac_a   == F1_mac_a(RAND, sqnHn, AMF)
        base    == [param |-> <<>>, check |-> "", authSubs |-> authSubs,
                    Kamf |-> ue.Kamf, KnasEnc |-> ue.KnasEnc, KnasInt |-> ue.KnasInt,
                    mac_a |-> mac_a, mac_aHn |-> mac_aHn,
                    sqnUe |-> sqnUe, sqnHn |-> sqnHn]
    IN  IF MacFailureReturned(mac_a, mac_aHn)
        THEN [base EXCEPT !.check = "MAC failure"]
        ELSE IF SqnStale(sqnUe, sqnHn)
        THEN LET amfSynch   == HexDecode(<<0, 0, 0, 0>>)
                 mac_s      == F1_mac_s(RAND, sqnUe, amfSynch)
                 sqnUeXorAK == [i \in 1..SqnLen |->
                                  IF i <= Len(sqnUe)
                                  THEN XorByte(sqnUe[i], AKstar[i]) ELSE 0]
             IN  [base EXCEPT !.param = sqnUeXorAK \o mac_s,
                              !.check = "SQN failure"]
        ELSE LET kdf  == KdfResStar(RAND, RES)
                 kamf == DerivateKamf(RAND, sqnHn, AK)
             IN  [base EXCEPT
                    !.authSubs = [authSubs EXCEPT !.SequenceNumber = HexEncode(sqnHn)],
                    !.Kamf = kamf,
                    !.KnasEnc = DerivateAlgKey(kamf, 1, ue.CipheringAlg),
                    !.KnasInt = DerivateAlgKey(kamf, 2, ue.IntegrityAlg),
                    !.param = SubSeq(kdf, (Len(kdf) \div 2) + 1, Len(kdf)),
                    !.check = "successful"]

\* ------------------------------------------------------------ PDU sessions

\* a nil slot of ue.PduSession; &UEPDUSession{} has the same zero fields, and
\* CreatePDUSession then sets Id >= 1 and Wait
NoSession == [Id |-> 0, ueIP |-> <<>>, StateSM |-> 0, tun |-> FALSE,
              stopSignal |-> "nil", Wait |-> "nil"]

EmptySlots == [i \in 0..(NumSlots - 1) |-> NoSession]

FirstNilHighest(slots) ==
    IF \A i \in 0..(NumSlots - 1) : slots[i] # NoSession THEN -1
    ELSE CHOOSE i \in 0..(NumSlots - 1) :
            slots[i] = NoSession /\ \A j \in (i + 1)..(NumSlots - 1) : slots[j] # NoSession
\* the loop of CreatePDUSession: the index of the first nil slot, or -1
FirstNil(slots) ==
    IF \A i \in 0..(NumSlots - 1) : slots[i] # NoSession THEN -1
    ELSE CHOOSE i \in 0..(NumSlots - 1) :
            slots[i] = NoSession /\ \A j \in 0..(i - 1) : slots[j] # NoSession

\* pduSession := &UEPDUSession{}; Id = uint8(index + 1); Wait = make(chan bool)
NewSession(pduSessionIndex) ==
    [NoSession EXCEPT !.Id = (pduSessionIndex + 1) % 256, !.Wait = "open"]

\* the slot array after the call, the session returned and whether an error is
CreatePDUSession(slots) ==
    LET pduSessionIndex == FirstNil(slots)
    IN  IF pduSessionIndex = -1
        THEN [err |-> TRUE, slots |-> slots, session |-> NoSession]
        ELSE [err |-> FALSE,
              slots |-> [slots EXCEPT ![pduSessionIndex] = NewSession(pduSessionIndex)],
              session |-> NewSession(pduSessionIndex)]

\* the state of the slot array after k calls of CreatePDUSession on a new UE
RECURSIVE CreatedSlots(_)
CreatedSlots(k) ==
    IF k = 0 THEN EmptySlots ELSE CreatePDUSession(CreatedSlots(k - 1)).slots

\* pduSessionid-1 computed in uint8
SlotIndex(pduSessionid) == ((pduSessionid + 256) - 1) % 256

\* pduSessionid > 15 || ue.PduSession[pduSessionid-1] == nil, the guard of
\* GetPduSession and DeletePduSession: "error" when it holds, "panic" when the
\* index is out of range of the array, "found" otherwise
FindPduSession(slots, pduSessionid) ==
    IF pduSessionid > 15 THEN "error"
    ELSE IF SlotIndex(pduSessionid) > NumSlots - 1 THEN "panic"
    ELSE IF slots[SlotIndex(pduSessionid)] = NoSession THEN "error"
    ELSE "found"

GetPduSession(slots, pduSessionid) ==
    LET res == FindPduSession(slots, pduSessionid)
    IN  [res |-> res,
         session |-> IF res = "found" THEN slots[SlotIndex(pduSessionid)] ELSE NoSession]

\* close(pduSession.Wait); stopSignal <- true when there is one; slot = nil
DeletePduSession(slots, pduSessionid) ==
    LET res == FindPduSession(slots, pduSessionid)
        pduSession == slots[SlotIndex(pduSessionid)]
    IN  IF res # "found"
        THEN [res |-> res, slots |-> slots, session |-> NoSession]
        ELSE [res |-> res,
              slots |-> [slots EXCEPT ![SlotIndex(pduSessionid)] = NoSession],
              session |-> [pduSession EXCEPT
                             !.Wait = "closed",
                             !.stopSignal = IF @ = "nil" THEN "nil" ELSE "sent"]]

\* the character codes of a formatted address
Dot == 46
Digit0 == 48
\* %d of one uint8
FmtD(v) ==
    IF v < 10 THEN <<Digit0 + v>>
    ELSE IF v < 100 THEN <<Digit0 + (v \div 10), Digit0 + (v % 10)>>
    ELSE <<Digit0 + (v \div 100), Digit0 + ((v \div 10) % 10), Digit0 + (v % 10)>>

\* fmt.Sprintf("%d.%d.%d.%d", ip[0], ip[1], ip[2], ip[3])
SetIp(ip) ==
    FmtD(ip[1]) \o <<Dot>> \o FmtD(ip[2]) \o <<Dot>> \o FmtD(ip[3]) \o <<Dot>> \o FmtD(ip[4])

\* ------------------------------------------------------------ construction

NoReg == [AMFRegionID |-> 0, AMFSetID |-> 0, AMFPointer |-> 0,
          TMSI5G |-> <<0, 0, 0, 0>>, AllowedNSSAI |-> <<>>]
NoSmc == [Ciphering |-> 0, Integrity |-> 0, RINMR |-> 0]
NoLast == [op |-> "none", rand |-> 0, autn |-> <<>>, check |-> "", param |-> <<>>,
           mac_a |-> <<>>, mac_aHn |-> <<>>, sqnUe |-> <<>>, sqnHn |-> <<>>,
           reg |-> NoReg, smc |-> NoSmc,
           pdu |-> NoPdu, id |-> 0, res |-> "", session |-> NoSession]

Snapshot ==
    [StateMM |-> StateMM, AuthenticationSubs |-> AuthenticationSubs, Guti |-> Guti,
     amfInfo |-> amfInfo, Snssai |-> Snssai,
     Kamf |-> Kamf, KnasEnc |-> KnasEnc, KnasInt |-> KnasInt,
     PduSession |-> PduSession, StateSM |-> StateSM]

\* NewRanUeContext: the zero value of UEContext with the configured fields set
InitUe(sqns, ssts, created) ==
    /\ \E k \in created : PduSession = CreatedSlots(k)
    /\ StateSM = SM5G_PDU_SESSION_INACTIVE
    /\ osLinks = {}
    /\ lock = "free"
    /\ tpc = "idle"
    /\ tres = "none"
    /\ sendSeq = 0
    /\ recvSeq = 0
    /\ lastRecv = 0
    /\ StateMM = MM5G_NULL
    /\ \E sqn \in sqns :
         AuthenticationSubs = [SequenceNumber |-> HexEncode(sqn),
                               AuthenticationManagementField |-> AmfField]
    /\ IntegrityAlg = 2
    /\ CipheringAlg = 0
    /\ Kamf = NoKamf
    /\ KnasEnc = NoKnas
    /\ KnasInt = NoKnas
    /\ Guti = <<0, 0, 0, 0>>
    /\ amfInfo = [amfRegionId |-> 0, amfSetId |-> 0, amfPointer |-> 0]
    /\ \E sst \in ssts : Snssai = [Sst |-> sst, Sd |-> SdConfig]
    /\ gnbRx = [open |-> TRUE, closed |-> FALSE, q |-> <<>>]
    /\ scenarioChan = [closed |-> FALSE, buf |-> <<>>]
    /\ pc = "idle"
    /\ pending = <<>>
    /\ emitted = <<>>
    /\ dropped = 0
    /\ last = NoLast
    /\ setLog = <<>>
    /\ pubLog = <<>>
    /\ opCount = 0
    /\ pre = Snapshot

\* ---------------------------------------------------- routing indicator

\* the digits a configured routing indicator is made of, as characters
RiChars == {Digit0, Digit0 + 1, Digit0 + 9}

\* the longest routing indicator a configuration is given
MaxRiLen == 5

RECURSIVE SeqsUpTo(_, _)
\* the sequences over S of length at most n
SeqsUpTo(S, n) ==
    IF n = 0 THEN {<<>>}
    ELSE LET shorter == SeqsUpTo(S, n - 1)
         IN  shorter \cup {Append(s, c) : s \in shorter, c \in S}

\* the routing indicators NewRanUeContext is called with
RoutingIndicators == SeqsUpTo(RiChars, MaxRiLen)

\* the character 'F'
CharF == 70

\* encoding/hex fromHexChar: the value of one hex character, 16 when it is none
FromHexChar(c) ==
    IF c \in 48..57 THEN c - 48
    ELSE IF c \in 97..102 THEN (c - 97) + 10
    ELSE IF c \in 65..70 THEN (c - 65) + 10
    ELSE 16

\* hex.DecodeString: odd length or a character that is no hex digit is an error
HexDecodeString(s) ==
    IF (Len(s) % 2 = 1) \/ (\E i \in 1..Len(s) : FromHexChar(s[i]) = 16)
    THEN [err |-> TRUE, bytes |-> <<>>]
    ELSE [err |-> FALSE,
          bytes |-> [i \in 1..(Len(s) \div 2) |->
                       (FromHexChar(s[(2 * i) - 1]) * 16) + FromHexChar(s[2 * i])]]

RECURSIVE PadF(_)
\* for len(routingIndicator) < 4 { append 'F' }
PadF(s) == IF Len(s) < 4 THEN PadF(Append(s, CharF)) ELSE s

\* the pair loop left out: the digits stay in their order
SwapPairsNone(s) == s

\* for i := 1; i < len; i += 2 { swap [i-1] and [i] } (0-based)
SwapPairs(s) ==
    [k \in 1..Len(s) |->
        IF (k % 2 = 1) /\ (k + 1 <= Len(s)) THEN s[k + 1]
        ELSE IF k % 2 = 0 THEN s[k - 1]
        ELSE s[k]]

\* GetRoutingIndicatorInOctets on a UE whose RoutingIndicator field is ri:
\* the field it leaves, whether log.Fatal ended the process, the bytes
GetRoutingIndicatorInOctets(ri) ==
    LET field == IF Len(ri) = 0 THEN <<Digit0>> ELSE ri
        dec == HexDecodeString(SwapPairs(PadF(field)))
    IN  IF Len(field) > 4
        THEN [fatal |-> TRUE, RoutingIndicator |-> field, bytes |-> <<>>]
        ELSE IF dec.err
        THEN [fatal |-> TRUE, RoutingIndicator |-> field, bytes |-> <<>>]
        ELSE [fatal |-> FALSE, RoutingIndicator |-> field, bytes |-> dec.bytes]

\* the routing indicator of the UEs the other specifications construct
DefaultRoutingIndicator == <<Digit0 + 1, Digit0, Digit0>>

\* NewRanUeContext up to the call of GetRoutingIndicatorInOctets
InitRoutingIndicator(ris) ==
    /\ routingIndicator \in ris
    /\ RoutingIndicator = routingIndicator
    /\ encodedRoutingIndicator = <<>>
    /\ riState = "config"

\* NewRanUeContext: encodedRoutingIndicator := ue.GetRoutingIndicatorInOctets()
CallGetRoutingIndicatorInOctets ==
    /\ riState = "config"
    /\ \E r \in {GetRoutingIndicatorInOctets(RoutingIndicator)} :
         /\ RoutingIndicator' = r.RoutingIndicator
         /\ encodedRoutingIndicator' = r.bytes
         /\ riState' = IF r.fatal THEN "fatal" ELSE "encoded"
    /\ UNCHANGED <<routingIndicator, ueVars, ngapVars, amfVars>>

\* a constructed UE: the routing indicator is encoded
InitConstructedRoutingIndicator ==
    /\ routingIndicator = DefaultRoutingIndicator
    /\ RoutingIndicator = routingIndicator
    /\ encodedRoutingIndicator = GetRoutingIndicatorInOctets(routingIndicator).bytes
    /\ riState = "encoded"

\* ------------------------------------------------------ gNB NGAP dispatch

\* ngapType.NGAPPDUPresent*: the kinds of PDU, "Nothing" the zero value
Presents == {"InitiatingMessage", "SuccessfulOutcome", "UnsuccessfulOutcome"}

\* the procedure codes the AMF sends: the ones Dispatch names and two it does not
ProcedureCodes ==
    {"DownlinkNASTransport", "InitialContextSetup", "PDUSessionResourceSetup",
     "PDUSessionResourceRelease", "UEContextRelease", "AMFConfigurationUpdate",
     "ErrorIndication", "NGSetup", "PathSwitchRequest", "Paging",
     "HandoverPreparation"}

\* what the SCTP read hands to Dispatch: nothing, or the bytes of a PDU of
\* some kind and procedure, whole or cut short after the procedure code
NgapMessages ==
    {[bytes |-> "nil", Present |-> "Nothing", ProcedureCode |-> "none"]}
    \cup [bytes : {"whole", "truncated"}, Present : Presents,
          ProcedureCode : ProcedureCodes]

\* the zero value of ngapType.NGAPPDU
ZeroPdu == [Present |-> "Nothing", ProcedureCode |-> "none"]

\* ngap.Decoder: the PDU and whether err is non-nil. A whole message decodes
\* to its PDU; for a message that does not decode the PDU returned with the
\* error is either still the zero value or filled as far as decoding got
Decoder(message) ==
    IF message.bytes = "whole"
    THEN {[err |-> FALSE, pdu |-> [Present |-> message.Present,
                                    ProcedureCode |-> message.ProcedureCode]]}
    ELSE IF message.bytes = "nil"
    THEN {[err |-> TRUE, pdu |-> ZeroPdu]}
    ELSE {[err |-> TRUE, pdu |-> ZeroPdu],
          [err |-> TRUE, pdu |-> [Present |-> message.Present,
                                   ProcedureCode |-> message.ProcedureCode]]}

\* switch ngapMsg.InitiatingMessage.ProcedureCode.Value
InitiatingMessageHandler(code) ==
    CASE code = "DownlinkNASTransport" -> "HandlerDownlinkNasTransport"
      [] code = "InitialContextSetup" -> "HandlerInitialContextSetupRequest"
      [] code = "PDUSessionResourceSetup" -> "HandlerPduSessionResourceSetupRequest"
      [] code = "PDUSessionResourceRelease" -> "HandlerPduSessionReleaseCommand"
      [] code = "UEContextRelease" -> "HandlerUeContextReleaseCommand"
      [] code = "AMFConfigurationUpdate" -> "HandlerAmfConfigurationUpdate"
      [] code = "ErrorIndication" -> "HandlerErrorIndication"
      [] OTHER -> "none"

\* switch ngapMsg.SuccessfulOutcome.ProcedureCode.Value
SuccessfulOutcomeHandler(code) ==
    CASE code = "NGSetup" -> "HandlerNgSetupResponse"
      [] code = "PathSwitchRequest" -> "HandlerPathSwitchRequestAcknowledge"
      [] OTHER -> "none"

\* the unsuccessful outcomes sent through the switch of the successful ones
UnsuccessfulOutcomeAsSuccessful(code) == SuccessfulOutcomeHandler(code)

\* switch ngapMsg.UnsuccessfulOutcome.ProcedureCode.Value
UnsuccessfulOutcomeHandler(code) ==
    CASE code = "NGSetup" -> "HandlerNgSetupFailure"
      [] OTHER -> "none"

\* switch ngapMsg.Present: the handler Dispatch calls for a PDU, "none" if none
DispatchHandler(pdu) ==
    CASE pdu.Present = "InitiatingMessage" -> InitiatingMessageHandler(pdu.ProcedureCode)
      [] pdu.Present = "SuccessfulOutcome" -> SuccessfulOutcomeHandler(pdu.ProcedureCode)
      [] pdu.Present = "UnsuccessfulOutcome" -> UnsuccessfulOutcomeHandler(pdu.ProcedureCode)
      [] OTHER -> "none"

\* Dispatch(amf, gnb, message): a nil message and a decoding error are logged,
\* then the switch runs on what Decoder returned
Dispatch(message) ==
    /\ dispatched < MaxOps
    /\ dispatched' = dispatched + 1
    /\ ngapIn' = message
    /\ \E r \in Decoder(message) :
         /\ ngapMsg' = r
         /\ invoked' = IF DispatchHandler(r.pdu) = "none" THEN <<>>
                       ELSE <<DispatchHandler(r.pdu)>>
    /\ UNCHANGED <<ueVars, riVars, amfVars>>

\* the gNB has dispatched nothing
InitNgap ==
    /\ ngapIn = [bytes |-> "nil", Present |-> "Nothing", ProcedureCode |-> "none"]
    /\ ngapMsg = [err |-> FALSE, pdu |-> ZeroPdu]
    /\ invoked = <<>>
    /\ dispatched = 0

\* ------------------------------------------------- AMF-side UE context

\* the PDU session ids the AMF tasks use
SmIds == {1, 2}

\* the AMF tasks that call into one UEContext concurrently
AmfTasks == {"t1", "t2"}

\* AddSmContext / DeleteSmContext calls one behaviour makes
MaxSmCalls == 4

\* no entry under a key of the map
NoSm == [pduSessionId |-> 0, tag |-> 0]

\* an AMF task between two calls, before its first
AmfIdle ==
    [pc |-> "idle", op |-> "none", sessionId |-> 0, newContext |-> NoSm,
     hasKey |-> FALSE, seen |-> <<>>, after |-> <<>>, err |-> "none",
     smContext |-> NoSm, concurrent |-> FALSE]

\* a new UEContext: an empty map, the mutex unlocked, no task inside a call
InitAmf ==
    /\ smContexts = [id \in SmIds |-> NoSm]
    /\ SmContextMtx = "free"
    /\ amfTask = [t \in AmfTasks |-> AmfIdle]
    /\ smCalls = 0
    /\ smLive = [id \in SmIds |-> 0]

\* a mutex that lets every task in
MtxFreeAlways(m) == TRUE

\* sync.Mutex: Lock returns once no task holds it
MtxFree(m) == m = "free"

\* whether a task other than t is inside a call
OtherInCall(t) == \E u \in AmfTasks \ {t} : amfTask[u].pc # "idle"

\* a task calls AddSmContext(newContext); the context is a fresh object
CallAddSmContext(t, id) ==
    /\ amfTask[t].pc = "idle"
    /\ smCalls < MaxSmCalls
    /\ smCalls' = smCalls + 1
    /\ amfTask' = [amfTask EXCEPT ![t] =
           [AmfIdle EXCEPT !.pc = "lock", !.op = "AddSmContext",
                           !.sessionId = id, !.concurrent = OtherInCall(t),
                           !.newContext = [pduSessionId |-> id, tag |-> smCalls + 1]]]
    /\ UNCHANGED <<smContexts, SmContextMtx, smLive, ueVars, riVars, ngapVars>>

\* a task calls DeleteSmContext(sessionId)
CallDeleteSmContext(t, id) ==
    /\ amfTask[t].pc = "idle"
    /\ smCalls < MaxSmCalls
    /\ smCalls' = smCalls + 1
    /\ amfTask' = [amfTask EXCEPT ![t] =
           [AmfIdle EXCEPT !.pc = "lock", !.op = "DeleteSmContext",
                           !.sessionId = id, !.concurrent = OtherInCall(t)]]
    /\ UNCHANGED <<smContexts, SmContextMtx, smLive, ueVars, riVars, ngapVars>>

\* ue.SmContextMtx.Lock()
SmContextMtxLock(t) ==
    /\ amfTask[t].pc = "lock"
    /\ MtxFree(SmContextMtx)
    /\ SmContextMtx' = t
    /\ amfTask' = [amfTask EXCEPT ![t].pc = "read"]
    /\ UNCHANGED <<smContexts, smCalls, smLive, ueVars, riVars, ngapVars>>

\* _, hasKey := ue.smContexts[sessionId]
SmContextHasKey(t) ==
    /\ amfTask[t].pc = "read"
    /\ amfTask' = [amfTask EXCEPT ![t].pc = "write",
                                  ![t].hasKey = smContexts[amfTask[t].sessionId] # NoSm,
                                  ![t].seen = smContexts]
    /\ UNCHANGED <<smContexts, SmContextMtx, smCalls, smLive, ueVars, riVars, ngapVars>>

\* the rest of AddSmContext, the deferred Unlock included
AddSmContext(t) ==
    /\ amfTask[t].pc = "write"
    /\ amfTask[t].op = "AddSmContext"
    /\ smContexts' = IF amfTask[t].hasKey THEN smContexts
                     ELSE [smContexts EXCEPT ![amfTask[t].sessionId] = amfTask[t].newContext]
    /\ amfTask' = [amfTask EXCEPT ![t].pc = "idle",
                                  ![t].err = IF amfTask[t].hasKey THEN "already exist" ELSE "nil",
                                  ![t].after = smContexts']
    /\ smLive' = IF amfTask[t].hasKey THEN smLive
                 ELSE [smLive EXCEPT ![amfTask[t].sessionId] = @ + 1]
    /\ SmContextMtx' = "free"
    /\ UNCHANGED <<smCalls, ueVars, riVars, ngapVars>>

\* the rest of DeleteSmContext, the deferred Unlock included
DeleteSmContext(t) ==
    /\ amfTask[t].pc = "write"
    /\ amfTask[t].op = "DeleteSmContext"
    /\ smContexts' = IF amfTask[t].hasKey
                     THEN [smContexts EXCEPT ![amfTask[t].sessionId] = NoSm]
                     ELSE smContexts
    /\ amfTask' = [amfTask EXCEPT ![t].pc = "idle",
                                  ![t].err = IF amfTask[t].hasKey THEN "nil" ELSE "not found",
                                  ![t].smContext = IF amfTask[t].hasKey
                                                   THEN smContexts[amfTask[t].sessionId]
                                                   ELSE NoSm,
                                  ![t].after = smContexts']
    /\ smLive' = IF amfTask[t].hasKey
                 THEN [smLive EXCEPT ![amfTask[t].sessionId] = @ - 1]
                 ELSE smLive
    /\ SmContextMtx' = "free"
    /\ UNCHANGED <<smCalls, ueVars, riVars, ngapVars>>

\* whatever is not the UE's own state, at rest
InitSide == InitConstructedRoutingIndicator /\ InitNgap /\ InitAmf

Init == InitUe(SqnValues, SstConfigs, {0}) /\ InitSide

\* ---------------------------------------------------------------- MM state

ScenarioMessageStale(mm) == pre.StateMM
\* scenario.ScenarioMessage{StateChange: ue.StateMM}
ScenarioMessage(mm) == mm

\* the assignment of a SetStateMM_* setter; the four setters other than
\* SetStateMM_NULL then send on scenarioChan (pc = "publish")
SetStateMM(new) ==
    /\ StateMM' = new
    /\ setLog' = Append(setLog, [st |-> new, chg |-> (new # StateMM)])

\* a handler or driver call starts: the UE task is between two messages
Begin(op) ==
    /\ pc = "idle"
    /\ opCount < MaxOps
    /\ opCount' = opCount + 1
    /\ pre' = Snapshot
    /\ emitted' = <<>>
    /\ dropped' = 0

\* the handler calls the sender for what it has to send, then returns
HandOver(msgs) == IF msgs = <<>> THEN "idle" ELSE "send"

\* ---------------------------------------------------------------- handlers

HandlerAuthenticationReject ==
    /\ Begin("AuthenticationReject")
    /\ last' = [NoLast EXCEPT !.op = "AuthenticationReject"]
    /\ SetStateMM(MM5G_DEREGISTERED)
    /\ pc' = "publish"
    /\ pending' = <<>>
    /\ UNCHANGED <<sideVars, secVars, regVars, gnbRx, scenarioChan, pubLog, otherVars>>

\* what HandlerAuthenticationRequest hands to sender.SendToGnb, by outcome
AuthenticationRequestUplink(check, param) ==
    IF check = "successful" THEN <<AuthenticationResponse(param)>>
    ELSE <<AuthenticationFailure(check, param)>>

AuthenticationRequestSetsStateNever(check) == FALSE
\* whether HandlerAuthenticationRequest calls SetStateMM_REGISTERED_INITIATED
AuthenticationRequestSetsState(check) == check = "successful"

HandlerAuthenticationRequest(rand, autn) ==
    /\ Begin("AuthenticationRequest")
    /\ \E r \in { DeriveRESstarAndSetKey(AuthenticationSubs, rand, autn,
                 [Kamf |-> Kamf, KnasEnc |-> KnasEnc, KnasInt |-> KnasInt,
                  CipheringAlg |-> CipheringAlg, IntegrityAlg |-> IntegrityAlg]) } :
        /\ TRUE
        /\ last' = [NoLast EXCEPT !.op = "AuthenticationRequest",
                                  !.rand = rand, !.autn = autn,
                                  !.check = r.check, !.param = r.param,
                                  !.mac_a = r.mac_a, !.mac_aHn = r.mac_aHn,
                                  !.sqnUe = r.sqnUe, !.sqnHn = r.sqnHn]
        \* authSubs is passed by value: the callee's update of SequenceNumber
        \* (r.authSubs) is not seen by the UE context
        /\ UNCHANGED <<AuthenticationSubs, IntegrityAlg, CipheringAlg>>
        /\ Kamf' = r.Kamf
        /\ KnasEnc' = r.KnasEnc
        /\ KnasInt' = r.KnasInt
        /\ pending' = AuthenticationRequestUplink(r.check, r.param)
        /\ IF AuthenticationRequestSetsState(r.check)
           THEN SetStateMM(MM5G_REGISTERED_INITIATED) /\ pc' = "publish"
           ELSE UNCHANGED <<StateMM, setLog>> /\ pc' = HandOver(pending')
        /\ UNCHANGED <<sideVars, regVars, gnbRx, scenarioChan, pubLog, otherVars>>

HandlerSecurityModeCommand(m) ==
    /\ Begin("SecurityModeCommand")
    /\ last' = [NoLast EXCEPT !.op = "SecurityModeCommand", !.smc = m]
    /\ pending' = <<SecurityModeComplete(m.RINMR)>>
    /\ pc' = "send"
    /\ UNCHANGED <<sideVars, StateMM, setLog, secVars, regVars, gnbRx, scenarioChan, pubLog,
                   otherVars>>

HandlerRegistrationAccept(m) ==
    /\ Begin("RegistrationAccept")
    /\ last' = [NoLast EXCEPT !.op = "RegistrationAccept", !.reg = m]
    /\ SetStateMM(MM5G_REGISTERED)
    /\ pc' = "publish"
    /\ pending' = <<>>
    /\ UNCHANGED <<sideVars, secVars, regVars, gnbRx, scenarioChan, pubLog, otherVars>>

\* fmt.Sprintf("0%x0%x0%x", snssai[2], snssai[3], snssai[4])
AllowedSd(snssai) ==
    <<0>> \o FmtX(snssai[3]) \o <<0>> \o FmtX(snssai[4]) \o <<0>> \o FmtX(snssai[5])

\* HandlerRegistrationAccept after SetStateMM_REGISTERED has returned
RegistrationAcceptStore ==
    LET m == last.reg
        snssai == m.AllowedNSSAI
    IN  /\ amfInfo' = [amfRegionId |-> m.AMFRegionID, amfSetId |-> m.AMFSetID,
                       amfPointer |-> m.AMFPointer]
        /\ Guti' = m.TMSI5G
        /\ Snssai' = IF Snssai.Sst = 0
                     THEN [Sst |-> snssai[2], Sd |-> AllowedSd(snssai)]
                     ELSE Snssai
        /\ pending' = <<RegistrationComplete>>

\* ------------------------------------------------------- session handling

\* the driver calls ue.CreatePDUSession()
CallCreatePDUSession ==
    /\ Begin("CreatePDUSession")
    /\ \E r \in { CreatePDUSession(PduSession) } :
        /\ PduSession' = r.slots
        /\ last' = [NoLast EXCEPT !.op = "CreatePDUSession",
                                  !.res = IF r.err THEN "error" ELSE "created",
                                  !.session = r.session]
    /\ pc' = "idle"
    /\ UNCHANGED <<sideVars, StateMM, setLog, secVars, regVars, gnbRx, scenarioChan, pubLog,
                   pending, StateSM, osLinks, lock, trigVars, seqVars>>

\* the driver calls ue.DeletePduSession(pduSessionid); an index out of the
\* range of the array ends the task with a run-time panic
CallDeletePduSession(pduSessionid) ==
    /\ Begin("DeletePduSession")
    /\ \E r \in { DeletePduSession(PduSession, pduSessionid) } :
        /\ PduSession' = r.slots
        /\ last' = [NoLast EXCEPT !.op = "DeletePduSession", !.id = pduSessionid,
                                  !.res = r.res, !.session = r.session]
        /\ pc' = IF r.res = "panic" THEN "indexpanic" ELSE "idle"
    /\ UNCHANGED <<sideVars, StateMM, setLog, secVars, regVars, gnbRx, scenarioChan, pubLog,
                   pending, StateSM, osLinks, lock, trigVars, seqVars>>

\* the driver calls ue.GetPduSession(pduSessionid)
CallGetPduSession(pduSessionid) ==
    /\ Begin("GetPduSession")
    /\ \E r \in { GetPduSession(PduSession, pduSessionid) } :
        /\ last' = [NoLast EXCEPT !.op = "GetPduSession", !.id = pduSessionid,
                                  !.res = r.res, !.session = r.session]
        /\ pc' = IF r.res = "panic" THEN "indexpanic" ELSE "idle"
    /\ UNCHANGED <<sideVars, StateMM, setLog, secVars, regVars, gnbRx, scenarioChan, pubLog,
                   pending, sessVars, lock, trigVars, seqVars>>

\* the data plane of an established session: the TUN device, its route and
\* VRF are created and stored in the session, with the stop signal of the
\* task that serves it
SetTunInterface(i) ==
    /\ Begin("SetTunInterface")
    /\ PduSession[i] # NoSession
    /\ ~PduSession[i].tun
    /\ PduSession' = [PduSession EXCEPT ![i].tun = TRUE, ![i].stopSignal = "armed"]
    /\ osLinks' = osLinks \cup {PduSession[i].Id}
    /\ last' = [NoLast EXCEPT !.op = "SetTunInterface", !.id = PduSession[i].Id]
    /\ pc' = "idle"
    /\ UNCHANGED <<sideVars, StateMM, setLog, secVars, regVars, gnbRx, scenarioChan, pubLog,
                   pending, StateSM, lock, trigVars, seqVars>>

\* ue.SetStateSM_PDU_SESSION_ACTIVE(): the UE-level setter the handler calls
\* before it looks the session up
UeSetStateSM_PDU_SESSION_ACTIVE == SM5G_PDU_SESSION_ACTIVE

HandlerDlNasTransportPduaccept(m) ==
    /\ Begin("DlNasTransport")
    /\ IF m.type = "PDUSessionEstablishmentAccept"
       THEN /\ StateSM' = UeSetStateSM_PDU_SESSION_ACTIVE
            /\ \E r \in { GetPduSession(PduSession, m.PDUSessionID) } :
                /\ last' = [NoLast EXCEPT !.op = "DlNasTransport", !.pdu = m,
                                          !.id = m.PDUSessionID, !.res = r.res,
                                          !.session = r.session]
                /\ pc' = IF r.res = "panic" THEN "indexpanic" ELSE "idle"
                /\ PduSession' =
                     IF r.res = "found"
                     THEN [PduSession EXCEPT ![SlotIndex(m.PDUSessionID)].ueIP =
                                                 SetIp(m.PDUAddressInformation)]
                     ELSE PduSession
       ELSE /\ last' = [NoLast EXCEPT !.op = "DlNasTransport", !.pdu = m,
                                      !.res = "unknown"]
            /\ pc' = "idle"
            /\ UNCHANGED <<PduSession, StateSM>>
    /\ UNCHANGED <<sideVars, StateMM, setLog, secVars, regVars, gnbRx, scenarioChan, pubLog,
                   pending, osLinks, lock, trigVars, seqVars>>

\* ---------------------------------------------------- suspension points

\* ue.scenarioChan <- ScenarioMessage{StateChange: ue.StateMM}: blocks while
\* the channel is full, panics when it is closed; then the handler goes on
ScenarioSend ==
    /\ pc = "publish"
    /\ \/ /\ scenarioChan.closed
          /\ pc' = "panic"
          /\ UNCHANGED <<scenarioChan, pubLog, regVars, pending>>
       \/ /\ ~scenarioChan.closed
          /\ Len(scenarioChan.buf) < ScenarioCap
          /\ scenarioChan' = [scenarioChan EXCEPT !.buf = Append(@, ScenarioMessage(StateMM))]
          /\ pubLog' = Append(pubLog, ScenarioMessage(StateMM))
          /\ \/ /\ last.op = "RegistrationAccept"
                /\ RegistrationAcceptStore
                /\ pc' = "send"
             \/ /\ last.op = "AuthenticationRequest"
                /\ pc' = HandOver(pending)
                /\ UNCHANGED <<regVars, pending>>
             \/ /\ last.op = "AuthenticationReject"
                /\ pc' = "idle"
                /\ UNCHANGED <<regVars, pending>>
    /\ UNCHANGED <<sideVars, StateMM, setLog, secVars, gnbRx, emitted, dropped, histVars,
                   otherVars>>

LockFreeAlways(l) == TRUE
\* ue.Lock() returns once no task holds the lock
LockFree(l) == l = "free"

GnbRxRoomAlways(ch) == TRUE
\* a send on the channel of capacity 1 goes through only while it has room
GnbRxRoom(ch) == Len(ch.q) < GnbRxCap

\* gnbRx <- message, the message numbered by its place among all sends
GnbRxPut(ch, msg) == [ch EXCEPT !.q = Append(@, [n |-> sendSeq + 1, m |-> msg])]

\* sender.SendToGnb up to the test of gnbRx: takes the UE lock; a nil gnbRx
\* drops the message with a warning and releases the lock
SendToGnb ==
    /\ pc = "send"
    /\ pending # <<>>
    /\ LockFree(lock)
    /\ IF ~gnbRx.open
       THEN /\ dropped' = dropped + 1
            /\ pending' = Tail(pending)
            /\ pc' = HandOver(Tail(pending))
            /\ UNCHANGED lock
       ELSE /\ lock' = "ue"
            /\ pc' = "put"
            /\ UNCHANGED <<dropped, pending>>
    /\ UNCHANGED <<sideVars, StateMM, setLog, secVars, regVars, gnbRx, scenarioChan, pubLog,
                   emitted, histVars, sessVars, trigVars, seqVars>>

\* sender.SendToGnb from the send on gnbRx, made while holding the lock: blocks
\* while the queue is full, panics on a closed channel; then the lock is released
SendToGnbPut ==
    /\ pc = "put"
    /\ IF gnbRx.closed
       THEN /\ pc' = "sendpanic"
            /\ UNCHANGED <<gnbRx, emitted, pending, lock, sendSeq>>
       ELSE /\ GnbRxRoom(gnbRx)
            /\ gnbRx' = GnbRxPut(gnbRx, Head(pending))
            /\ sendSeq' = sendSeq + 1
            /\ emitted' = Append(emitted, Head(pending))
            /\ pending' = Tail(pending)
            /\ lock' = "free"
            /\ pc' = HandOver(Tail(pending))
    /\ UNCHANGED <<sideVars, StateMM, setLog, secVars, regVars, scenarioChan, pubLog, dropped,
                   histVars, sessVars, trigVars, recvSeq, lastRecv>>

\* ------------------------------------------------------------ trigger task

\* a driver trigger, on its own task, has built an uplink message and calls
\* sender.SendToGnb
TriggerSend ==
    /\ tpc = "idle"
    /\ opCount < MaxOps
    /\ opCount' = opCount + 1
    /\ tpc' = "send"
    /\ tres' = "none"
    /\ UNCHANGED <<sideVars, StateMM, setLog, secVars, regVars, gnbRx, scenarioChan, pubLog, pc,
                   pending, emitted, dropped, last, pre, sessVars, lock, seqVars>>

TriggerSendToGnb ==
    /\ tpc = "send"
    /\ LockFree(lock)
    /\ IF ~gnbRx.open
       THEN /\ tres' = "dropped"
            /\ tpc' = "idle"
            /\ UNCHANGED lock
       ELSE /\ lock' = "trigger"
            /\ tpc' = "put"
            /\ UNCHANGED tres
    /\ UNCHANGED <<sideVars, StateMM, setLog, secVars, regVars, gnbRx, scenarioChan, pubLog, pc,
                   pending, emitted, dropped, histVars, sessVars, seqVars>>

TriggerSendToGnbPut ==
    /\ tpc = "put"
    /\ IF gnbRx.closed
       THEN /\ tpc' = "sendpanic"
            /\ UNCHANGED <<gnbRx, tres, lock, sendSeq>>
       ELSE /\ GnbRxRoom(gnbRx)
            /\ gnbRx' = GnbRxPut(gnbRx, UlNasTransport)
            /\ sendSeq' = sendSeq + 1
            /\ tres' = "sent"
            /\ lock' = "free"
            /\ tpc' = "idle"
    /\ UNCHANGED <<sideVars, StateMM, setLog, secVars, regVars, scenarioChan, pubLog, pc,
                   pending, emitted, dropped, histVars, sessVars, recvSeq, lastRecv>>

\* ------------------------------------------------------------- termination

\* the OS objects Terminate deletes: those of the sessions still in a slot
\* whose tun, route and vrf are set
SessionLinks(slots) ==
    { slots[i].Id : i \in { j \in 0..(NumSlots - 1) : slots[j] # NoSession /\ slots[j].tun } }

\* Terminate up to ue.Lock(): SetStateMM_NULL, then the loop over the sessions
\* that deletes their TUN, route and VRF from the OS
Terminate ==
    /\ Begin("Terminate")
    /\ last' = [NoLast EXCEPT !.op = "Terminate"]
    /\ SetStateMM(MM5G_NULL)
    /\ osLinks' = osLinks \ SessionLinks(PduSession)
    /\ pc' = "lock"
    /\ UNCHANGED <<sideVars, secVars, regVars, pending, pubLog, gnbRx, scenarioChan,
                   PduSession, StateSM, lock, trigVars, seqVars>>

\* close(ue.gnbRx); ue.gnbRx = nil
CloseGnbRx(ch) == [ch EXCEPT !.closed = TRUE, !.open = FALSE]

\* Terminate from ue.Lock(): under the lock a non-nil gnbRx is closed and set
\* to nil; after Unlock scenarioChan is closed (closing a closed channel panics)
TerminateLocked ==
    /\ pc = "lock"
    /\ LockFree(lock)
    /\ gnbRx' = IF gnbRx.open THEN CloseGnbRx(gnbRx) ELSE gnbRx
    /\ IF scenarioChan.closed
       THEN pc' = "panic" /\ UNCHANGED scenarioChan
       ELSE pc' = "idle" /\ scenarioChan' = [scenarioChan EXCEPT !.closed = TRUE]
    /\ UNCHANGED <<sideVars, StateMM, setLog, secVars, regVars, pending, emitted, dropped,
                   pubLog, histVars, sessVars, lock, trigVars, seqVars>>

\* ------------------------------------------------------------- environment

\* the scenario driver receives one ScenarioMessage
DriverReceive ==
    /\ scenarioChan.buf # <<>>
    /\ scenarioChan' = [scenarioChan EXCEPT !.buf = Tail(@)]
    /\ UNCHANGED <<sideVars, StateMM, setLog, secVars, regVars, gnbRx, pc, pending, emitted,
                   dropped, histVars, pubLog, otherVars>>

\* the gNB task receives one message from gnbRx
GnbReceive ==
    /\ gnbRx.q # <<>>
    /\ gnbRx' = [gnbRx EXCEPT !.q = Tail(@)]
    /\ recvSeq' = recvSeq + 1
    /\ lastRecv' = Head(gnbRx.q).n
    /\ UNCHANGED <<sideVars, StateMM, setLog, secVars, regVars, scenarioChan, pc, pending,
                   emitted, dropped, histVars, pubLog, sessVars, lock, trigVars, sendSeq>>

Next ==
    \/ HandlerAuthenticationReject
    \/ \E m \in AuthenticationRequests : HandlerAuthenticationRequest(m.rand, m.autn)
    \/ \E m \in SecurityModeCommands : HandlerSecurityModeCommand(m)
    \/ \E m \in RegistrationAccepts : HandlerRegistrationAccept(m)
    \/ ScenarioSend
    \/ SendToGnb
    \/ SendToGnbPut
    \/ Terminate
    \/ TerminateLocked
    \/ DriverReceive
    \/ GnbReceive

Spec == Init /\ [][Next]_vars

\* the session level of one UE: the driver's session calls, the DL NAS
\* Transport handler and Terminate, from a UE with sessions already created
InitSession == InitUe({<<0, 0, 0, 0, 0, 1>>}, {1}, PreCreated) /\ InitSide

NextSession ==
    \/ CallCreatePDUSession
    \/ \E id \in SessionIds : CallGetPduSession(id)
    \/ \E id \in SessionIds : CallDeletePduSession(id)
    \/ \E i \in {0, NumSlots - 1} : SetTunInterface(i)
    \/ \E m \in DlNasTransports : HandlerDlNasTransportPduaccept(m)
    \/ Terminate
    \/ TerminateLocked

SpecSession == InitSession /\ [][NextSession]_vars

\* the uplink queue of one UE: the UE task and a trigger task send through
\* sender.SendToGnb, Terminate closes, the gNB task drains
InitQueue == InitUe({<<0, 0, 0, 0, 0, 1>>}, {1}, {0}) /\ InitSide

NextQueue ==
    \/ \E m \in SecurityModeCommands : HandlerSecurityModeCommand(m)
    \/ SendToGnb
    \/ SendToGnbPut
    \/ TriggerSend
    \/ TriggerSendToGnb
    \/ TriggerSendToGnbPut
    \/ Terminate
    \/ TerminateLocked
    \/ GnbReceive

SpecQueue == InitQueue /\ [][NextQueue]_vars

\* the construction of one UE for each routing indicator a configuration
\* can give
InitRouting ==
    /\ InitUe({<<0, 0, 0, 0, 0, 1>>}, {1}, {0})
    /\ InitRoutingIndicator(RoutingIndicators)
    /\ InitNgap
    /\ InitAmf

NextRouting == CallGetRoutingIndicatorInOctets

SpecRouting == InitRouting /\ [][NextRouting]_vars

\* one AMF-side UE context that two tasks add session contexts to and delete
\* them from
InitAmfSide == InitUe({<<0, 0, 0, 0, 0, 1>>}, {1}, {0}) /\ InitSide

NextAmf ==
    \/ \E t \in AmfTasks, id \in SmIds : CallAddSmContext(t, id)
    \/ \E t \in AmfTasks, id \in SmIds : CallDeleteSmContext(t, id)
    \/ \E t \in AmfTasks : SmContextMtxLock(t)
    \/ \E t \in AmfTasks : SmContextHasKey(t)
    \/ \E t \in AmfTasks : AddSmContext(t)
    \/ \E t \in AmfTasks : DeleteSmContext(t)

SpecAmf == InitAmfSide /\ [][NextAmf]_vars

\* the gNB's NGAP receive loop: one Dispatch per message read from the AMF
InitNgapSide == InitUe({<<0, 0, 0, 0, 0, 1>>}, {1}, {0}) /\ InitSide

NextNgap == \E message \in NgapMessages : Dispatch(message)

SpecNgap == InitNgapSide /\ [][NextNgap]_vars

\* ----------------------------------------------------------------- typing

TypeOK ==
    /\ StateMM \in 0..5
    /\ pc \in {"idle", "publish", "send", "put", "lock", "panic", "sendpanic",
             "indexpanic"}
    /\ tpc \in {"idle", "send", "put", "sendpanic"}
    /\ lock \in {"free", "ue", "trigger"}
    /\ Len(gnbRx.q) <= GnbRxCap
    /\ Len(scenarioChan.buf) <= ScenarioCap
    /\ opCount \in 0..MaxOps

\* ------------------------------------------------------------ claim helpers

\* a > b for two byte strings of one length, read as big-endian numbers
SqnGreater(a, b) ==
    \E i \in 1..Len(a) : a[i] > b[i] /\ \A j \in 1..(i - 1) : a[j] = b[j]

\* a can be obtained from b by deleting elements
RECURSIVE IsSubseq(_, _)
IsSubseq(a, b) ==
    IF a = <<>> THEN TRUE
    ELSE IF b = <<>> THEN FALSE
    ELSE IF Head(a) = Head(b) THEN IsSubseq(Tail(a), Tail(b))
    ELSE IsSubseq(a, Tail(b))

\* the states of a sequence of setLog entries
States(log) == [i \in 1..Len(log) |-> log[i].st]

\* the uplink messages of the running handler, sent or still to send
Uplink == emitted \o pending

AuthRequestHandled == last.op = "AuthenticationRequest"

\* ------------------------------------------------------------------- claims

\* C1: an Authentication Request whose AUTN MAC differs from the recomputed
\* MAC_a yields outcome "MAC failure", only an Authentication Failure with
\* cause MAC failure is emitted, and the MM state is as before the handler.
C1_MacFailure ==
    (AuthRequestHandled /\ last.mac_a # last.mac_aHn) =>
        /\ last.check = "MAC failure"
        /\ StateMM = pre.StateMM
        /\ \A i \in 1..Len(Uplink) :
              Uplink[i].type = "AuthenticationFailure" /\ Uplink[i].cause = "MAC failure"

\* C2: every AKA round with outcome "successful" had MAC_a equal to the MAC
\* carried in AUTN and SQN_ue <= SQN_hn at its start.
C2_SuccessfulRound ==
    (AuthRequestHandled /\ last.check = "successful") =>
        /\ last.mac_a = last.mac_aHn
        /\ ~SqnGreater(last.sqnUe, last.sqnHn)

\* C3: an Authentication Request with SQN_ue > SQN_hn yields outcome
\* "SQN failure" with a 14-byte AUTS (SQN_ue xor AK* then 8 bytes MAC_S), only
\* an Authentication Failure with the synch-failure cause and that AUTS is
\* emitted, exactly one once the handler has returned, and neither the MM
\* state nor the stored SQN changes.
C3_SynchFailure ==
    (AuthRequestHandled /\ SqnGreater(last.sqnUe, last.sqnHn)) =>
        /\ last.check = "SQN failure"
        /\ Len(last.param) = 14
        /\ \A i \in 1..6 :
              last.param[i] = XorByte(last.sqnUe[i], F2345_AKstar(last.rand)[i])
        /\ SubSeq(last.param, 7, 14) = F1_mac_s(last.rand, last.sqnUe, <<0, 0>>)
        /\ StateMM = pre.StateMM
        /\ AuthenticationSubs = pre.AuthenticationSubs
        /\ \A i \in 1..Len(Uplink) :
              Uplink[i] = AuthenticationFailure("SQN failure", last.param)
        /\ pc = "idle" => Len(emitted) + dropped = 1
        /\ (pc = "idle" /\ gnbRx.open) => Len(emitted) = 1

C3_Witness ==
    /\ AuthRequestHandled
    /\ SqnGreater(last.sqnUe, last.sqnHn)
    /\ pc = "idle"
    /\ emitted = <<AuthenticationFailure("SQN failure", last.param)>>

C5_SqnStored ==
    (AuthRequestHandled /\ last.check = "successful") =>
        HexDecode(AuthenticationSubs.SequenceNumber) = last.sqnHn

\* C6: a downlink NAS message that does not match the MM state (Registration
\* Accept or Security Mode Command outside REGISTERED_INITIATED, Authentication
\* Request outside DEREGISTERED) leaves the MM state and the stored
\* GUTI/AMF/slice data unchanged and emits no uplink NAS message.
C6_MismatchDiscarded ==
    LET mismatch ==
          \/ /\ last.op \in {"RegistrationAccept", "SecurityModeCommand"}
             /\ pre.StateMM # MM5G_REGISTERED_INITIATED
          \/ /\ last.op = "AuthenticationRequest"
             /\ pre.StateMM # MM5G_DEREGISTERED
    IN  mismatch =>
          /\ StateMM = pre.StateMM
          /\ Guti = pre.Guti
          /\ amfInfo = pre.amfInfo
          /\ Snssai = pre.Snssai
          /\ Uplink = <<>>
          /\ dropped = 0

C8_PublishNeverBlocks ==
    pc = "publish" => ENABLED ScenarioSend

\* C9: once an Authentication Reject is handled, the MM state is DEREGISTERED
\* and no key of an earlier authentication (Kamf, KnasEnc, KnasInt) remains.
C9_RejectDropsSecurityContext ==
    (last.op = "AuthenticationReject" /\ pc = "idle") =>
        /\ StateMM = MM5G_DEREGISTERED
        /\ Kamf = NoKamf
        /\ KnasEnc = NoKnas
        /\ KnasInt = NoKnas

\* C10: a Registration Accept handled in REGISTERED_INITIATED leaves the UE in
\* REGISTERED with the message's GUTI and AMF region id, set id and pointer
\* stored and exactly one Registration Complete emitted; the slice selector is
\* the first Allowed NSSAI entry (sst = nssai[1], sd = hex(nssai[2..5])) if
\* the UE had sst = 0 and is unchanged otherwise.
C10_RegistrationAccept ==
    (last.op = "RegistrationAccept" /\ pre.StateMM = MM5G_REGISTERED_INITIATED
        /\ pc = "idle") =>
        /\ StateMM = MM5G_REGISTERED
        /\ Guti = last.reg.TMSI5G
        /\ amfInfo = [amfRegionId |-> last.reg.AMFRegionID,
                      amfSetId |-> last.reg.AMFSetID,
                      amfPointer |-> last.reg.AMFPointer]
        /\ emitted = <<RegistrationComplete>>
        /\ Snssai = IF pre.Snssai.Sst = 0
                    THEN [Sst |-> last.reg.AllowedNSSAI[2],
                          Sd |-> HexEncode(SubSeq(last.reg.AllowedNSSAI, 3, 5))]
                    ELSE pre.Snssai

\* C11: once a Security Mode Command is handled, the UE's ciphering and
\* integrity algorithms are the ones the network selected in the message and
\* the NAS keys are the ones derived from Kamf for those algorithms; the MM
\* state is as before and exactly one Security Mode Complete was emitted.
C11_SecurityModeCommand ==
    (last.op = "SecurityModeCommand" /\ pc = "idle") =>
        /\ CipheringAlg = last.smc.Ciphering
        /\ IntegrityAlg = last.smc.Integrity
        /\ KnasEnc = DerivateAlgKey(Kamf, 1, last.smc.Ciphering)
        /\ KnasInt = DerivateAlgKey(Kamf, 2, last.smc.Integrity)
        /\ StateMM = pre.StateMM
        /\ Len(emitted) + dropped = 1
        /\ \A i \in 1..Len(emitted) : emitted[i] = SecurityModeComplete(last.smc.RINMR)

\* ------------------------------------------------- claim helpers (sessions)

\* the numbers of a dotted decimal string, e.g. "10.45.0.2" -> <<10, 45, 0, 2>>
RECURSIVE ParseDottedFrom(_, _)
ParseDottedFrom(str, cur) ==
    IF str = <<>> THEN <<cur>>
    ELSE IF Head(str) = Dot THEN <<cur>> \o ParseDottedFrom(Tail(str), 0)
    ELSE ParseDottedFrom(Tail(str), (cur * 10) + (Head(str) - Digit0))
ParseDotted(str) == ParseDottedFrom(str, 0)

Slots == 0..(NumSlots - 1)

\* the handler that ran last handled a PDU Session Establishment Accept
AcceptHandled ==
    last.op = "DlNasTransport" /\ last.pdu.type = "PDUSessionEstablishmentAccept"

\* the UE held a session for the id of that accept when the handler started
AcceptedSessionHeld ==
    /\ last.id \in 1..NumSlots
    /\ pre.PduSession[last.id - 1] # NoSession

TerminateReturned == last.op = "Terminate" /\ pc = "idle"

\* C12: a PDU Session Establishment Accept for session id n, handled while
\* slot n-1 holds a session, leaves that session in SM state ACTIVE with ueIP
\* the dotted form of the first 4 bytes of the PDU Address Information, and
\* leaves every other slot as it was.
C12_AcceptActivatesSession ==
    (AcceptHandled /\ AcceptedSessionHeld) =>
        /\ pc = "idle"
        /\ PduSession[last.id - 1].StateSM = SM5G_PDU_SESSION_ACTIVE
        /\ ParseDotted(PduSession[last.id - 1].ueIP)
              = SubSeq(last.pdu.PDUAddressInformation, 1, 4)
        /\ \A i \in Slots \ {last.id - 1} : PduSession[i] = pre.PduSession[i]

\* C13: a PDU Session Establishment Accept naming an id for which the UE holds
\* no session (empty slot, or id outside 1..16) is dropped: the handler
\* returns, and neither the UE's SM state nor any session (state, IP) changes.
C13_UnknownSessionDropped ==
    (AcceptHandled /\ ~AcceptedSessionHeld) =>
        /\ pc = "idle"
        /\ StateSM = pre.StateSM
        /\ PduSession = pre.PduSession

\* C14: once Terminate has returned, the MM state is NULL, all 16 session
\* slots are empty, gnbRx is closed and nil, and scenarioChan is closed.
C14_TerminateClearsAll ==
    TerminateReturned =>
        /\ StateMM = MM5G_NULL
        /\ \A i \in Slots : PduSession[i] = NoSession
        /\ gnbRx.closed
        /\ ~gnbRx.open
        /\ scenarioChan.closed

\* C15: once Terminate has returned, every session that was in a slot when
\* it was called has had its Wait channel closed and its stop signal sent.
C15_TerminateCancelsSessions ==
    TerminateReturned =>
        \A i \in Slots :
            pre.PduSession[i] # NoSession =>
                /\ PduSession[i].Wait # "open"
                /\ PduSession[i].stopSignal # "armed"

\* C16: a Terminate never fails by closing a channel that an earlier
\* Terminate has closed: no Terminate ends in a panic.
C16_TerminateIdempotent ==
    last.op = "Terminate" => pc # "panic"

\* C17: in every interleaving of the senders and the closer no message is
\* sent on a closed queue: gnbRx is closed exactly when the UE's reference is
\* nil, a sender is at its send only while it holds the lock and with gnbRx
\* non-nil and open, no sender fails in its send, and a sender that finds
\* gnbRx nil drops its message and goes on.
C17_NoSendOnClosedQueue ==
    /\ pc # "sendpanic"
    /\ tpc # "sendpanic"
    /\ gnbRx.closed <=> ~gnbRx.open
    /\ pc = "put" => (lock = "ue" /\ gnbRx.open /\ ~gnbRx.closed)
    /\ tpc = "put" => (lock = "trigger" /\ gnbRx.open /\ ~gnbRx.closed)
    /\ tres = "dropped" => (tpc # "put" /\ ~gnbRx.open)
    /\ (\A i \in 1..Len(gnbRx.q) : gnbRx.q[i].n <= sendSeq)

\* the closer waits at ue.Lock() while a sender holds the lock at its send,
\* after an earlier message went through
C17_Witness ==
    /\ pc = "lock"
    /\ tpc = "put"
    /\ lock = "trigger"
    /\ sendSeq >= 1

C19_SlotIds ==
    /\ \A i \in Slots : PduSession[i] # NoSession => PduSession[i].Id = i + 1
    /\ last.op = "CreatePDUSession" =>
         IF \A i \in Slots : pre.PduSession[i] # NoSession
         THEN last.res = "error" /\ PduSession = pre.PduSession
         ELSE \E i \in Slots :
                /\ pre.PduSession[i] = NoSession
                /\ \A j \in 0..(i - 1) : pre.PduSession[j] # NoSession
                /\ last.res = "created"
                /\ last.session.Id = i + 1
                /\ PduSession[i] = last.session
                /\ \A j \in Slots \ {i} : PduSession[j] = pre.PduSession[j]

\* CreatePDUSession has refused a seventeenth session
C19_Witness ==
    /\ last.op = "CreatePDUSession"
    /\ last.res = "error"
    /\ \A i \in Slots : PduSession[i] # NoSession /\ PduSession[i].Id = i + 1

\* C20: the session CreatePDUSession returns is in SM state INACTIVE.
C20_FreshSessionInactive ==
    (last.op = "CreatePDUSession" /\ last.res = "created") =>
        last.session.StateSM = SM5G_PDU_SESSION_INACTIVE

\* the call that ran last is DeletePduSession for the id of a session in its slot
DeleteOfLiveSession ==
    /\ last.op = "DeletePduSession"
    /\ last.id \in 1..NumSlots
    /\ pre.PduSession[last.id - 1] # NoSession

\* C21: DeletePduSession(id) on a live session empties slot id-1, closes the
\* session's Wait, sends its stop signal and leaves none of its OS objects
\* (TUN link, route, VRF) behind, touching no other slot; on an id without a
\* live session it returns an error and changes no slot and closes no channel.
C21_DeleteReleasesSession ==
    last.op = "DeletePduSession" =>
        IF DeleteOfLiveSession
        THEN /\ pc = "idle"
             /\ last.res = "found"
             /\ PduSession[last.id - 1] = NoSession
             /\ last.session.Wait = "closed"
             /\ pre.PduSession[last.id - 1].stopSignal # "nil" => last.session.stopSignal = "sent"
             /\ last.id \notin osLinks
             /\ \A i \in Slots \ {last.id - 1} : PduSession[i] = pre.PduSession[i]
        ELSE /\ pc = "idle"
             /\ last.res = "error"
             /\ PduSession = pre.PduSession

\* the values of the four digits of a routing indicator, F where it has none
RiDigits(ri) == [i \in 1..4 |-> IF i <= Len(ri) THEN ri[i] - Digit0 ELSE 15]

\* two digits to the octet: the first in bits 1 to 4, the second in bits 5 to 8
RiOctets(d) == <<(d[2] * 16) + d[1], (d[4] * 16) + d[3]>>

\* "100"
Ri100 == <<Digit0 + 1, Digit0, Digit0>>

\* the original statement of C25: a routing indicator of at most 4 digits is
\* encoded into 2 bytes, F-padded to 4 digits with the digits of each pair
\* swapped, "100" into {0x01, 0xF0} and the empty one into {0x00, 0xF0}; a
\* longer one is rejected at construction
C25_RoutingIndicatorOriginal ==
    riState # "config" =>
        IF Len(routingIndicator) > 4
        THEN riState = "fatal"
        ELSE /\ riState = "encoded"
             /\ Len(encodedRoutingIndicator) = 2
             /\ routingIndicator # <<>> =>
                    encodedRoutingIndicator = RiOctets(RiDigits(routingIndicator))
             /\ routingIndicator = Ri100 => encodedRoutingIndicator = <<1, 240>>
             /\ routingIndicator = <<>> => encodedRoutingIndicator = <<0, 240>>

\* C25 (amended): a routing indicator of at most 4 digits is encoded into 2
\* bytes, the empty one taken as "0", F-padded to 4 digits with the digits of
\* each pair swapped: "100" gives {0x01, 0xF0}, the empty one {0xF0, 0xFF}; a
\* longer one ends construction with a fatal error
C25_RoutingIndicator ==
    riState # "config" =>
        IF Len(routingIndicator) > 4
        THEN riState = "fatal"
        ELSE /\ riState = "encoded"
             /\ Len(encodedRoutingIndicator) = 2
             /\ encodedRoutingIndicator =
                    RiOctets(RiDigits(IF routingIndicator = <<>> THEN <<Digit0>>
                                      ELSE routingIndicator))
             /\ routingIndicator = Ri100 => encodedRoutingIndicator = <<1, 240>>
             /\ routingIndicator = <<>> => encodedRoutingIndicator = <<240, 255>>

\* the empty routing indicator has been encoded
C25_Witness == (riState = "encoded") /\ (routingIndicator = <<>>)

\* C22: when the message Dispatch was called with is nil or does not decode,
\* Dispatch invokes no handler
C22_DecodeFailureInvokesNothing ==
    ((dispatched > 0) /\ ngapMsg.err) => (invoked = <<>>)

\* the dispatch table: PDU kind, procedure code, handler
DispatchTable ==
    {<<"InitiatingMessage", "DownlinkNASTransport", "HandlerDownlinkNasTransport">>,
     <<"InitiatingMessage", "InitialContextSetup", "HandlerInitialContextSetupRequest">>,
     <<"InitiatingMessage", "PDUSessionResourceSetup", "HandlerPduSessionResourceSetupRequest">>,
     <<"InitiatingMessage", "PDUSessionResourceRelease", "HandlerPduSessionReleaseCommand">>,
     <<"InitiatingMessage", "UEContextRelease", "HandlerUeContextReleaseCommand">>,
     <<"InitiatingMessage", "AMFConfigurationUpdate", "HandlerAmfConfigurationUpdate">>,
     <<"InitiatingMessage", "ErrorIndication", "HandlerErrorIndication">>,
     <<"SuccessfulOutcome", "NGSetup", "HandlerNgSetupResponse">>,
     <<"SuccessfulOutcome", "PathSwitchRequest", "HandlerPathSwitchRequestAcknowledge">>,
     <<"UnsuccessfulOutcome", "NGSetup", "HandlerNgSetupFailure">>}

\* the handlers the table gives for the PDU decoded last
TableHandlers ==
    {e[3] : e \in {x \in DispatchTable :
                     (x[1] = ngapMsg.pdu.Present) /\ (x[2] = ngapMsg.pdu.ProcedureCode)}}

\* C23: for a decoded PDU Dispatch invokes at most one handler, the one the
\* dispatch table gives for (PDU kind, procedure code), and none when the
\* table has no entry for the pair
C23_DispatchTable ==
    ((dispatched > 0) /\ ~ngapMsg.err) =>
        /\ Len(invoked) <= 1
        /\ {invoked[i] : i \in 1..Len(invoked)} = TableHandlers

\* an NGSetup failure has been dispatched to its handler
C23_Witness ==
    /\ dispatched > 0
    /\ ~ngapMsg.err
    /\ ngapMsg.pdu = [Present |-> "UnsuccessfulOutcome", ProcedureCode |-> "NGSetup"]
    /\ invoked = <<"HandlerNgSetupFailure">>

SessionLookup == last.op \in {"GetPduSession", "DeletePduSession"}

\* the id of that call is the id of a session that was in its slot
LookupOfLiveSession ==
    /\ SessionLookup
    /\ last.id \in 1..NumSlots
    /\ pre.PduSession[last.id - 1] # NoSession

\* C26: for the id of a session created and not deleted, GetPduSession returns
\* that session and DeletePduSession succeeds; for every other id, 0 and ids
\* above 16 included, both return an error and the task goes on
C26_LookupByIdTotal ==
    SessionLookup =>
        IF LookupOfLiveSession
        THEN /\ last.res = "found"
             /\ pc = "idle"
             /\ (last.op = "GetPduSession") =>
                    (last.session = pre.PduSession[last.id - 1])
        ELSE /\ last.res = "error"
             /\ pc = "idle"

\* C27: while Terminate waits for the per-UE lock it can either take it, or
\* the task that holds it can finish its send and release it, without the
\* gNB task receiving anything: no sender sits with the lock on a full queue
C27_CloserGetsLock ==
    (pc = "lock") => ENABLED (TerminateLocked \/ TriggerSendToGnbPut)

\* the tasks that have returned from an AddSmContext / DeleteSmContext call
Returned(op) == {t \in AmfTasks : (amfTask[t].pc = "idle") /\ (amfTask[t].op = op)}

\* C28: whatever the interleaving of the tasks' AddSmContext and
\* DeleteSmContext calls, every id has as many entries in the map as adds
\* less deletes of it have succeeded, which is at most one; between a call's
\* look-up and its update no other call changes the map; an add for an id in
\* the map returns the error and leaves the map as it was, an add for an id
\* not in it stores the new context there and nowhere else; a delete for an
\* id not in the map returns not found and leaves the map as it was, a delete
\* for an id in it removes that entry only and returns the context it held
C28_SmContextMap ==
    /\ \A id \in SmIds : smLive[id] = (IF smContexts[id] # NoSm THEN 1 ELSE 0)
    /\ \A t \in AmfTasks : (amfTask[t].pc = "write") => (smContexts = amfTask[t].seen)
    /\ \A t \in Returned("AddSmContext") :
          LET c == amfTask[t]
          IN  IF c.seen[c.sessionId] # NoSm
              THEN (c.err = "already exist") /\ (c.after = c.seen)
              ELSE /\ c.err = "nil"
                   /\ c.after = [c.seen EXCEPT ![c.sessionId] = c.newContext]
    /\ \A t \in Returned("DeleteSmContext") :
          LET c == amfTask[t]
          IN  IF c.seen[c.sessionId] = NoSm
              THEN (c.err = "not found") /\ (c.after = c.seen) /\ (c.smContext = NoSm)
              ELSE /\ c.err = "nil"
                   /\ c.after = [c.seen EXCEPT ![c.sessionId] = NoSm]
                   /\ c.smContext = c.seen[c.sessionId]

\* two adds for id 1 that ran at the same time have returned: the first with
\* nil, the second with the error, and the map holds the first one's context
C28_Witness ==
    /\ Returned("AddSmContext") = AmfTasks
    /\ amfTask["t1"].sessionId = 1
    /\ amfTask["t2"].sessionId = 1
    /\ amfTask["t2"].concurrent
    /\ amfTask["t1"].err = "nil"
    /\ amfTask["t2"].err = "already exist"
    /\ smContexts[1] = amfTask["t1"].newContext

====
